---- MODULE Spec2Model ----
(***************************************************************************)
(* tailscale-dns-sync (src/main.py): fetch the device inventory of a       *)
(* tailnet, fetch the DNS records of a DNSPod zone, and create or modify   *)
(* one "A" record per device.                                              *)
(*                                                                         *)
(* Strings that the program takes apart or composes (device names, the     *)
(* tailnet, the sub domain, record names) are sequences of one-character   *)
(* strings.  One step of the model is the code between two HTTP exchanges: *)
(* the request, its outcome, and everything the program does with the      *)
(* answer up to the next request or the end of the process.                *)
(***************************************************************************)
EXTENDS Integers, Sequences, FiniteSets, TLC

\* ------------------------------------------------------------- bounds
MaxDevices == 2
MaxRecords == 2
MaxNameLen == 5

\* ------------------------------------------------------------ strings
None == "None"

Chars == {"a", ".", "u", "t"}

StrsUpTo(n) == UNION {[1..k -> Chars] : k \in 0..n}

Dot == <<".">>

\* str.replace(old, new) with a non-empty `old`: every non-overlapping
\* occurrence, scanning from the left.
RECURSIVE Replace(_, _, _)
Replace(s, old, new) ==
    IF Len(s) < Len(old) THEN s
    ELSE IF SubSeq(s, 1, Len(old)) = old
         THEN new \o Replace(SubSeq(s, Len(old) + 1, Len(s)), old, new)
         ELSE <<s[1]>> \o Replace(Tail(s), old, new)

\* domain = tailnet.replace('@', '.')
TailnetDomain(t) == Replace(t, <<"@">>, Dot)

\* name = d['name'].replace(f'.{domain}', '')
NormalizeName(raw, t) == Replace(raw, Dot \o TailnetDomain(t), <<>>)

\* Device(name, ip) for one device object of the response; ip = addresses[0]
MakeDevice(d, t) == [name |-> NormalizeName(d.name, t), ip |-> d.addresses[1]]

\* ------------------------------------------------------ value domains
\* the tailnet of the synchronisation runs, and the tailnets name
\* normalisation is exercised on
MainTailnet == <<"u", "@", "t">>
Tailnets == {<<"t">>, MainTailnet}

RawA == <<"a", ".", "u", ".", "t">>
RawB == <<"b", ".", "u", ".", "t">>
RawNames == {RawA, RawB}

\* device objects of the inventory; the address list of one may be empty
RawDevices ==
    [name : RawNames, addresses : {<<"ip1">>, <<"ip2", "ip1">>}]
        \cup {[name |-> RawB, addresses |-> <<>>]}

SubDomains == {<<>>, <<"s">>}

NameA == <<"a">>
NameB == <<"b">>
NameAS == <<"a", ".", "s">>

\* the provider's default routing line, '默认'
DefaultLine == "default"
OtherLine == "telecom"

\* records the zone may hold before a run: name, type, value, line
RecordKinds ==
    {<<NameA, "A", "ip1", DefaultLine>>,
     <<NameA, "A", "ip2", DefaultLine>>,
     <<NameA, "TXT", "ip1", DefaultLine>>,
     <<NameA, "A", "ip1", OtherLine>>,
     <<NameB, "A", "ip2", DefaultLine>>,
     <<NameAS, "A", "ip1", DefaultLine>>}

SeqsUpTo(S, n) == UNION {[1..k -> S] : k \in 0..n}

\* the zone as the provider holds it: ids are assigned by the provider
MakeZone(kinds) ==
    [k \in DOMAIN kinds |->
        [id |-> k, name |-> kinds[k][1], type |-> kinds[k][2],
         value |-> kinds[k][3], line |-> kinds[k][4]]]

\* the module-level name `ip` as `from config import *` leaves it:
\* unbound, or bound to some address
NoIp == "unbound"
ConfigIps == {NoIp, "ip1"}

\* ------------------------------------------------------------- state
VARIABLES
    tailnet,      \* TAILSCALE_TAILNET
    sub_domain,   \* DNSPOD_SUB_DOMAIN (<<>>: None or '')
    config_ip,    \* the global `ip`
    inventory,    \* device objects the Tailscale API answers with
    dns,          \* records of the zone at the provider
    pc,           \* "start", "list", "loop", "exited"
    devices,      \* result of get_tailscale_devices
    records,      \* Record Index of sync_devices_to_domain
    idx,          \* number of devices the loop has taken up
    calls,        \* HTTP requests issued by this process, in order
    err,          \* error value returned to main (None if none)
    stderr,       \* what the process wrote to the error stream
    exit_code,    \* -1 while running
    run,          \* 1: first run of the job, 2: second
    prev_exit     \* exit code of the first run, in the second

vars == <<tailnet, sub_domain, config_ip, inventory, dns, pc, devices, records,
          idx, calls, err, stderr, exit_code, run, prev_exit>>

config == <<tailnet, sub_domain, config_ip>>

NoRecords == <<>>

ProcessStart ==
    /\ pc = "start"
    /\ devices = <<>>
    /\ records = NoRecords
    /\ idx = 0
    /\ calls = <<>>
    /\ err = None
    /\ stderr = "none"
    /\ exit_code = -1

Init ==
    /\ tailnet = MainTailnet
    /\ sub_domain \in SubDomains
    /\ config_ip \in ConfigIps
    /\ inventory \in SeqsUpTo(RawDevices, MaxDevices)
    /\ dns \in {MakeZone(k) : k \in SeqsUpTo(RecordKinds, MaxRecords)}
    /\ ProcessStart
    /\ run = 1
    /\ prev_exit = -1

\* ------------------------------------------------------ HTTP outcomes
TransportFailures == {"timeout", "refused", "http_error"}
TailscaleOutcomes == TransportFailures \cup {"bad_json", "ok"}
DnspodOutcomes == TailscaleOutcomes \cup {"rejected"}

\* requests.get / requests.post stand outside the try block: a timeout or a
\* refused connection raises there
Raises(o) == o \in {"timeout", "refused"}

\* r.json() raises ValueError; since requests 2.27 its JSONDecodeError is a
\* RequestException too, and the first except clause takes it
TailscaleErrs(o) ==
    CASE o = "http_error" -> {"Call Tailscale API failed"}
      [] o = "bad_json" -> {"Call Tailscale API failed",
                            "Tailscale API response json decode failed."}
      [] OTHER -> {None}

Call(api, value, sub, id, dev, o) ==
    [api |-> api, value |-> value, sub_domain |-> sub, record_id |-> id,
     dev |-> dev, outcome |-> o]

\* an exception nobody handles: traceback on the error stream, exit status 1
Fault ==
    /\ pc' = "exited"
    /\ stderr' = "Traceback"
    /\ exit_code' = 1

\* main: print(..., file=sys.stderr); sys.exit(1)
MainFails(e, msg) ==
    /\ pc' = "exited"
    /\ err' = e
    /\ stderr' = msg
    /\ exit_code' = 1

HasEmptyAddresses(inv) == \E k \in DOMAIN inv : inv[k].addresses = <<>>

\* the check on the inventory error left out
InventoryNeverFailed(e) == FALSE

\* main: `if err:` on the result of get_tailscale_devices
InventoryFailed(e) == e # None

\* get_tailscale_devices and main's handling of its result
GetTailscaleDevices ==
    /\ pc = "start"
    /\ \E o \in TailscaleOutcomes :
        /\ calls' = Append(calls, Call("tailscale", None, None, 0, 0, o))
        /\ \/ /\ Raises(o)
              /\ Fault
              /\ UNCHANGED <<devices, err>>
           \/ /\ o = "ok"
              /\ HasEmptyAddresses(inventory)
              /\ Fault
              /\ UNCHANGED <<devices, err>>
           \/ /\ ~Raises(o)
              /\ ~(o = "ok" /\ HasEmptyAddresses(inventory))
              /\ \E e \in TailscaleErrs(o) :
                    IF InventoryFailed(e)
                    THEN /\ MainFails(e, "Get tailscale devices failed")
                         /\ UNCHANGED devices
                    ELSE /\ devices' = IF o = "ok"
                                       THEN [k \in DOMAIN inventory |->
                                                MakeDevice(inventory[k], tailnet)]
                                       ELSE <<>>
                         /\ pc' = "list"
                         /\ UNCHANGED <<err, stderr, exit_code>>
    /\ UNCHANGED <<config, inventory, dns, records, idx, run, prev_exit>>

\* ------------------------------------------- name normalisation alone
InitNorm ==
    /\ tailnet \in Tailnets
    /\ sub_domain = <<>>
    /\ config_ip = NoIp
    /\ inventory \in {<<[name |-> n, addresses |-> a]>> :
                        n \in StrsUpTo(MaxNameLen), a \in {<<>>, <<"ip1">>}}
    /\ dns = <<>>
    /\ ProcessStart
    /\ run = 1
    /\ prev_exit = -1

NextNorm == GetTailscaleDevices

SpecNorm == InitNorm /\ [][NextNorm]_vars

\* ------------------------------------------------------------ Dnspod
\* _request: the error value for an outcome that does not raise
DnspodErrs(o) ==
    CASE o = "http_error" -> {"Call Dnspod API failed"}
      [] o = "bad_json" -> {"Call Dnspod API failed",
                            "Dnspod API response json decode failed."}
      [] o = "rejected" -> {"Dnspod API response status != 1"}
      [] OTHER -> {None}

\* records[r['name']].append(r) over the answer of Record.List
GroupByName(list) ==
    [n \in {list[k].name : k \in DOMAIN list} |->
        SelectSeq(list, LAMBDA r : r.name = n)]

\* the sub domain left out of the record name
RecordNameWithoutSub(name, sub) == name

\* record_name = f'{device.name}.{sub_domain}' if sub_domain else device.name
RecordName(name, sub) == IF sub # <<>> THEN name \o Dot \o sub ELSE name

\* record_name not in records
NotInIndex(name, index) == name \notin DOMAIN index

\* the filter on the routing line left out
RecordsOfAnyLine(rs) == rs

\* [r for r in records[record_name] if r['line'] == '默认']
DefaultRecords(rs) == SelectSeq(rs, LAMBDA r : r.line = DefaultLine)

\* the last default-line record instead of the first
LastRecord(default_record) == default_record[Len(default_record)]

\* modify_record = default_record[0]
ModifyRecord(default_record) == default_record[1]

\* the comparison turned around
OutOfDate(r, ip) == ~(r.type = "A" /\ r.value = ip)

\* modify_record['type'] == 'A' and modify_record['value'] == device.ip
UpToDate(r, ip) == r.type = "A" /\ r.value = ip

\* the zone after the provider accepted Record.Create
ZoneAfterCreate(zone, ip, sub) ==
    Append(zone, [id |-> Len(zone) + 1, name |-> sub, type |-> "A",
                  value |-> ip, line |-> DefaultLine])

\* the zone after the provider accepted Record.Modify
ZoneAfterModify(zone, ip, sub, id) ==
    [k \in DOMAIN zone |->
        IF zone[k].id = id
        THEN [id |-> id, name |-> sub, type |-> "A", value |-> ip,
              line |-> DefaultLine]
        ELSE zone[k]]

\* the error of a request ignored
SyncNeverReturns(e) == FALSE

\* sync_devices_to_domain: `if err: return err`
SyncReturns(e) == e # None

\* the loop goes on to the next device, or sync returns None and main ends
NextDevice ==
    /\ IF idx + 1 = Len(devices)
       THEN pc' = "exited" /\ exit_code' = 0
       ELSE pc' = "loop" /\ exit_code' = exit_code
    /\ UNCHANGED <<err, stderr>>

\* get_domain_records at the head of sync_devices_to_domain
GetDomainRecords ==
    /\ pc = "list"
    /\ \E o \in DnspodOutcomes :
        /\ calls' = Append(calls, Call("Record.List", None, sub_domain, 0, 0, o))
        /\ \/ /\ Raises(o)
              /\ Fault
              /\ UNCHANGED <<records, err>>
           \/ /\ ~Raises(o)
              /\ \E e \in DnspodErrs(o) :
                    IF SyncReturns(e)
                    THEN /\ MainFails(e, "Dnspod sync records failed")
                         /\ UNCHANGED records
                    ELSE /\ records' = IF o = "ok" THEN GroupByName(dns) ELSE NoRecords
                         /\ IF devices = <<>>
                            THEN pc' = "exited" /\ exit_code' = 0
                            ELSE pc' = "loop" /\ exit_code' = exit_code
                         /\ UNCHANGED <<err, stderr>>
    /\ UNCHANGED <<config, inventory, dns, devices, idx, run, prev_exit>>

\* add_record_a(ip, domain, record_name) for the device the loop is at, and
\* what sync and main do with its result; the provider applies what it accepts
AddRecordA(ip, record_name) ==
    \E o \in DnspodOutcomes :
        /\ calls' = Append(calls, Call("Record.Create", ip, record_name, 0, idx + 1, o))
        /\ \/ /\ Raises(o)
              /\ Fault
              /\ UNCHANGED <<dns, err>>
           \/ /\ ~Raises(o)
              /\ dns' = IF o = "ok" THEN ZoneAfterCreate(dns, ip, record_name) ELSE dns
              /\ \E e \in DnspodErrs(o) :
                    IF SyncReturns(e)
                    THEN MainFails(e, "Dnspod sync records failed")
                    ELSE NextDevice

\* modify_record_a(ip, domain, record_name, record_id), likewise
ModifyRecordA(ip, record_name, record_id) ==
    \E o \in DnspodOutcomes :
        /\ calls' = Append(calls, Call("Record.Modify", ip, record_name, record_id, idx + 1, o))
        /\ \/ /\ Raises(o)
              /\ Fault
              /\ UNCHANGED <<dns, err>>
           \/ /\ ~Raises(o)
              /\ dns' = IF o = "ok"
                        THEN ZoneAfterModify(dns, ip, record_name, record_id)
                        ELSE dns
              /\ \E e \in DnspodErrs(o) :
                    IF SyncReturns(e)
                    THEN MainFails(e, "Dnspod sync records failed")
                    ELSE NextDevice

\* the device the loop takes up next, and its record name
Device == devices[idx + 1]
DeviceRecordName == RecordName(Device.name, sub_domain)

\* one pass of the loop body: no entry under the record name
SyncCreate ==
    /\ pc = "loop"
    /\ NotInIndex(DeviceRecordName, records)
    /\ idx' = idx + 1
    /\ AddRecordA(Device.ip, DeviceRecordName)
    /\ UNCHANGED <<config, inventory, devices, records, run, prev_exit>>

\* an entry, but no record on the default line: add_record_a(ip, ...) reads
\* the global `ip`, and a NameError is raised where it is unbound
SyncCreateNoDefault ==
    /\ pc = "loop"
    /\ ~NotInIndex(DeviceRecordName, records)
    /\ DefaultRecords(records[DeviceRecordName]) = <<>>
    /\ idx' = idx + 1
    /\ \/ /\ config_ip = NoIp
          /\ Fault
          /\ UNCHANGED <<calls, dns, err>>
       \/ /\ config_ip # NoIp
          /\ AddRecordA(config_ip, DeviceRecordName)
    /\ UNCHANGED <<config, inventory, devices, records, run, prev_exit>>

\* a default-line record that already points to the device
SyncSkip ==
    /\ pc = "loop"
    /\ ~NotInIndex(DeviceRecordName, records)
    /\ DefaultRecords(records[DeviceRecordName]) # <<>>
    /\ UpToDate(ModifyRecord(DefaultRecords(records[DeviceRecordName])), Device.ip)
    /\ idx' = idx + 1
    /\ NextDevice
    /\ UNCHANGED <<config, inventory, dns, devices, records, calls, run, prev_exit>>

\* a default-line record that does not
SyncModify ==
    /\ pc = "loop"
    /\ ~NotInIndex(DeviceRecordName, records)
    /\ DefaultRecords(records[DeviceRecordName]) # <<>>
    /\ ~UpToDate(ModifyRecord(DefaultRecords(records[DeviceRecordName])), Device.ip)
    /\ idx' = idx + 1
    /\ ModifyRecordA(Device.ip, DeviceRecordName,
                     ModifyRecord(DefaultRecords(records[DeviceRecordName])).id)
    /\ UNCHANGED <<config, inventory, devices, records, run, prev_exit>>

Next ==
    \/ GetTailscaleDevices
    \/ GetDomainRecords
    \/ SyncCreate
    \/ SyncCreateNoDefault
    \/ SyncSkip
    \/ SyncModify

Spec == Init /\ [][Next]_vars

\* ---------------------------------------------------- the job, twice
\* the next run of the periodic job: a new process, the same configuration
\* and inventory, the zone as the first run left it
SecondRun ==
    /\ pc = "exited"
    /\ run = 1
    /\ run' = 2
    /\ prev_exit' = exit_code
    /\ pc' = "start"
    /\ devices' = <<>>
    /\ records' = NoRecords
    /\ idx' = 0
    /\ calls' = <<>>
    /\ err' = None
    /\ stderr' = "none"
    /\ exit_code' = -1
    /\ UNCHANGED <<config, inventory, dns>>

NextTwice == Next \/ SecondRun

SpecTwice == Init /\ [][NextTwice]_vars

\* ============================================================= claims
\* What the claims speak of, written out from the state alone.

\* the record name of the k-th endpoint
NameOf(k) ==
    IF sub_domain = <<>> THEN devices[k].name
    ELSE devices[k].name \o <<".">> \o sub_domain

\* the entry of the Record Index under that name (empty if there is none)
EntryOf(k) == IF NameOf(k) \in DOMAIN records THEN records[NameOf(k)] ELSE <<>>

\* its records on the default line, in index order
DefaultsOf(k) == SelectSeq(EntryOf(k), LAMBDA r : r.line = "default")

Range(f) == {f[x] : x \in DOMAIN f}

\* the requests issued for the k-th endpoint, and all write requests
CallsFor(k) == SelectSeq(calls, LAMBDA c : c.dev = k)
IsWrite(c) == c.api \in {"Record.Create", "Record.Modify"}
Writes == SelectSeq(calls, IsWrite)

\* the Record Index was fetched
Listed == \E j \in DOMAIN calls : calls[j].api = "Record.List" /\ calls[j].outcome = "ok"

OneCreate(k, ip) ==
    /\ Len(CallsFor(k)) = 1
    /\ CallsFor(k)[1].api = "Record.Create"
    /\ CallsFor(k)[1].value = ip
    /\ CallsFor(k)[1].sub_domain = NameOf(k)

OneModify(k, ip, id) ==
    /\ Len(CallsFor(k)) = 1
    /\ CallsFor(k)[1].api = "Record.Modify"
    /\ CallsFor(k)[1].value = ip
    /\ CallsFor(k)[1].sub_domain = NameOf(k)
    /\ CallsFor(k)[1].record_id = id

\* C1: an endpoint whose record name is in the Record Index with no record
\* on the default line gets a create call carrying its own address.
C1_NoDefaultLineCreatesOwnAddress ==
    \A k \in 1..idx :
        (EntryOf(k) # <<>> /\ DefaultsOf(k) = <<>>) => OneCreate(k, devices[k].ip)

\* C2: after a first run that ended without error, a second run with the
\* same inventory issues no create and no update call.
C2_SecondRunWritesNothing ==
    (run = 2 /\ prev_exit = 0) => Writes = <<>>

\* C3 as stated: for every default-line record under the endpoint's record
\* name whose value differs from the endpoint's address, the endpoint gets
\* exactly one update call with the address, the name and that record's id,
\* and no create call.
C3_AnyDifferingDefaultRecordIsUpdated ==
    \A k \in 1..idx :
        \A r \in Range(DefaultsOf(k)) :
            r.value # devices[k].ip => OneModify(k, devices[k].ip, r.id)

\* C3 amended: when the first default-line record (in index order) under the
\* endpoint's record name has a value that differs from the endpoint's
\* address, the endpoint gets exactly one update call with the address, the
\* name and that record's id, and no create call.
C3_FirstDifferingDefaultRecordIsUpdated ==
    \A k \in 1..idx :
        (DefaultsOf(k) # <<>> /\ DefaultsOf(k)[1].value # devices[k].ip)
            => OneModify(k, devices[k].ip, DefaultsOf(k)[1].id)

C3_Witness ==
    \E k \in 1..idx :
        /\ Len(DefaultsOf(k)) = 2
        /\ DefaultsOf(k)[1].value # devices[k].ip
        /\ DefaultsOf(k)[2].value = devices[k].ip
        /\ OneModify(k, devices[k].ip, DefaultsOf(k)[1].id)
        /\ CallsFor(k)[1].outcome = "ok"

\* C4: an endpoint whose record name (its name, or name.sub_domain) has no
\* entry in the Record Index gets exactly one create call with its address
\* and that record name, and no update call.
C4_MissingNameIsCreated ==
    \A k \in 1..idx :
        (Listed /\ NameOf(k) \notin DOMAIN records) => OneCreate(k, devices[k].ip)

C4_Witness ==
    \E k \in 1..idx :
        /\ sub_domain # <<>>
        /\ devices[k].name \in DOMAIN records
        /\ NameOf(k) \notin DOMAIN records
        /\ OneCreate(k, devices[k].ip)
        /\ CallsFor(k)[1].outcome = "ok"

SomeDefaultUpToDate(k) ==
    \E r \in Range(DefaultsOf(k)) : r.type = "A" /\ r.value = devices[k].ip

FirstDefaultUpToDate(k) ==
    /\ DefaultsOf(k) # <<>>
    /\ DefaultsOf(k)[1].type = "A"
    /\ DefaultsOf(k)[1].value = devices[k].ip

\* C5 as stated: an endpoint with some default-line A record of its address
\* under its record name gets no call; and when that holds for every
\* endpoint, the run issues no write and ends in success.
C5_AnyMatchingDefaultRecordIsNoOp ==
    /\ \A k \in 1..idx : SomeDefaultUpToDate(k) => CallsFor(k) = <<>>
    /\ (pc = "exited" /\ Listed /\ \A k \in DOMAIN devices : SomeDefaultUpToDate(k))
          => (Writes = <<>> /\ exit_code = 0 /\ err = None)

\* C5 amended: an endpoint whose first default-line record (in index order)
\* under its record name is an A record of its address gets no call; and
\* when that holds for every endpoint in the fetched Record Index, the run
\* issues no write and ends in success.
C5_FirstMatchingDefaultRecordIsNoOp ==
    /\ \A k \in 1..idx : FirstDefaultUpToDate(k) => CallsFor(k) = <<>>
    /\ (pc = "exited" /\ Listed /\ \A k \in DOMAIN devices : FirstDefaultUpToDate(k))
          => (Writes = <<>> /\ exit_code = 0 /\ err = None /\ idx = Len(devices))

C5_Witness ==
    /\ pc = "exited"
    /\ Listed
    /\ Len(devices) = 2
    /\ devices[1].name # devices[2].name
    /\ \A k \in DOMAIN devices : FirstDefaultUpToDate(k)
    /\ idx = 2
    /\ exit_code = 0

ReturnedErrors == {"http_error", "bad_json", "rejected"}

\* a successful earlier write is still in the zone: a created record is
\* there, a modified record carries what its last accepted update set
StillApplied(i) ==
    LET c == calls[i] IN
    IF c.api = "Record.Create"
    THEN \E n \in DOMAIN dns :
            /\ dns[n].name = c.sub_domain
            /\ dns[n].value = c.value
            /\ dns[n].type = "A"
            /\ dns[n].line = "default"
            /\ \A m \in DOMAIN records : \A x \in DOMAIN records[m] :
                    records[m][x].id # dns[n].id
    ELSE \/ \E j \in (i + 1)..Len(calls) :
                /\ calls[j].api = "Record.Modify"
                /\ calls[j].record_id = c.record_id
                /\ calls[j].outcome = "ok"
         \/ \E n \in DOMAIN dns :
                /\ dns[n].id = c.record_id
                /\ dns[n].value = c.value
                /\ dns[n].type = "A"

\* C6: when the write call of the N-th endpoint returns an error, the run
\* returns that error, no request follows it (nothing for later endpoints,
\* no retry), and the writes of endpoints 1..N-1 stay applied.
C6_FailFastOnWriteError ==
    \A j \in DOMAIN calls :
        (IsWrite(calls[j]) /\ calls[j].outcome \in ReturnedErrors) =>
            /\ j = Len(calls)
            /\ pc = "exited"
            /\ idx = calls[j].dev
            /\ err \in DnspodErrs(calls[j].outcome)
            /\ err # None
            /\ stderr = "Dnspod sync records failed"
            /\ exit_code = 1
            /\ \A i \in 1..(j - 1) :
                    /\ calls[i].outcome = "ok"
                    /\ calls[i].dev < calls[j].dev
                    /\ IsWrite(calls[i]) => StillApplied(i)

C6_Witness ==
    /\ Len(calls) = 4
    /\ calls[3].api = "Record.Modify"
    /\ calls[3].outcome = "ok"
    /\ calls[4].api = "Record.Create"
    /\ calls[4].outcome = "rejected"
    /\ calls[4].dev = 2
    /\ pc = "exited"

DnspodApis == {"Record.List", "Record.Create", "Record.Modify"}

\* C7: when get_tailscale_devices returns an error, no DNS request is made,
\* the inventory error is reported on the error stream and the exit status
\* is not zero; the exit status is zero only when the inventory fetch and
\* every step of sync succeeded.
C7_FailFastOnInventoryError ==
    /\ \A j \in DOMAIN calls :
          (calls[j].api = "tailscale" /\ calls[j].outcome \in ReturnedErrors) =>
              /\ \A i \in DOMAIN calls : calls[i].api \notin DnspodApis
              /\ pc = "exited"
              /\ stderr = "Get tailscale devices failed"
              /\ err \in TailscaleErrs(calls[j].outcome)
              /\ err # None
              /\ exit_code = 1
    /\ exit_code = 0 =>
          /\ pc = "exited"
          /\ Len(calls) >= 2
          /\ calls[1].api = "tailscale"
          /\ calls[2].api = "Record.List"
          /\ \A i \in DOMAIN calls : calls[i].outcome = "ok"
          /\ idx = Len(devices)
          /\ Len(devices) = Len(inventory)
          /\ err = None
          /\ stderr = "none"

C7_Witness ==
    /\ pc = "exited"
    /\ Len(calls) = 1
    /\ calls[1].outcome = "http_error"
    /\ inventory # <<>>
    /\ exit_code = 1

\* C8: every transport-level outcome (timeout, refused connection, non-2xx
\* status) of either API becomes a returned error value, an undecodable
\* body becomes a decode-failure error value, and none escapes as a fault.
C8_TransportFailuresAreReturned ==
    \A j \in DOMAIN calls :
        /\ calls[j].outcome \in TransportFailures =>
              (j = Len(calls) => (stderr # "Traceback" /\ err # None))
        /\ calls[j].outcome = "bad_json" =>
              (j = Len(calls) =>
                  err \in {"Tailscale API response json decode failed.",
                           "Dnspod API response json decode failed."})

\* the raw name without its trailing suffix, if it ends with it
StripSuffix(raw, suffix) ==
    IF /\ Len(raw) >= Len(suffix)
       /\ SubSeq(raw, Len(raw) - Len(suffix) + 1, Len(raw)) = suffix
    THEN SubSeq(raw, 1, Len(raw) - Len(suffix))
    ELSE raw

AtToDot(t) == [i \in DOMAIN t |-> IF t[i] = "@" THEN "." ELSE t[i]]

\* C9: the endpoint name is the raw device name with only its trailing
\* '.<domain>' removed, <domain> being the tailnet with '@' replaced by '.';
\* a name without that suffix is unchanged and other occurrences stay.
C9_OnlyTrailingSuffixRemoved ==
    pc = "list" =>
        \A k \in DOMAIN devices :
            devices[k].name = StripSuffix(inventory[k].name, <<".">> \o AtToDot(tailnet))

\* C10: the Record Index is fetched once and not modified afterwards; every
\* update call targets the first default-line record of the index under the
\* current endpoint's record name, never a record on another line or under
\* another name; no endpoint causes more than one write call.
C10_State ==
    /\ Len(SelectSeq(calls, LAMBDA c : c.api = "Record.List")) <= 1
    /\ pc = "loop" => Listed
    /\ \A j \in DOMAIN calls : IsWrite(calls[j]) => (Listed /\ calls[j].dev \in 1..idx)
    /\ \A k \in 1..idx : Len(CallsFor(k)) <= 1
    /\ \A j \in DOMAIN calls :
          calls[j].api = "Record.Modify" =>
              /\ DefaultsOf(calls[j].dev) # <<>>
              /\ calls[j].record_id = DefaultsOf(calls[j].dev)[1].id
              /\ \A n \in DOMAIN records : \A x \in DOMAIN records[n] :
                    records[n][x].id = calls[j].record_id =>
                        /\ n = NameOf(calls[j].dev)
                        /\ records[n][x].name = NameOf(calls[j].dev)
                        /\ records[n][x].line = "default"

C10_IndexReadOnceAndDefaultLineOnly ==
    /\ []C10_State
    /\ [][pc = "loop" => records' = records]_vars

C10_Witness ==
    \E j \in DOMAIN calls :
        /\ calls[j].api = "Record.Modify"
        /\ calls[j].outcome = "ok"
        /\ calls[j].dev = 1
        /\ Len(EntryOf(1)) = 2
        /\ EntryOf(1)[1].line # "default"
        /\ calls[j].record_id = EntryOf(1)[2].id

====
